---- MODULE Spec2Model ----
(***************************************************************************)
(* Model of the flood analysis service (src/main.py): the handler of POST  *)
(* /api/analyze/image with its input validation, its retry/backoff loop    *)
(* around the Gemini call, the response normalizer parse_gemini_response   *)
(* and the fallback generator generate_image_risk_assessment, run by a     *)
(* single-threaded asyncio event loop.                                     *)
(*                                                                         *)
(* Python strings the code inspects character by character (content types, *)
(* error texts) are tuples of one-character strings.  A model reply is a   *)
(* tuple of lexical tokens ("{", "}", ",", prose, "key": value members).   *)
(* Python values are tagged records; numbers are kept in tenths (the       *)
(* fallback generator rounds to one decimal place).                        *)
(***************************************************************************)
EXTENDS Integers, Sequences, FiniteSets, TLC

VARIABLES
  pc,             \* per request: position of its handler coroutine
  content_type,   \* per request: file.content_type
  image_size,     \* per request: len(image_data)
  decodable,      \* per request: whether PIL can open and convert the bytes
  attempt,        \* per request: loop variable of "for attempt in range(max_retries)"
  retry_delay,    \* per request: local retry_delay
  parsed_data,    \* per request: local parsed_data
  response,       \* per request: the HTTP response the client receives
  loop,           \* the request whose handler occupies the event loop thread
  calls,          \* history: number of model.generate_content calls of the request
  fallback_calls, \* history: number of generate_image_risk_assessment calls
  sleeps,         \* history: the delays passed to time.sleep, in order
  errors,         \* history: str(genai_error) of the failed attempts, in order
  reply,          \* history: response.text of the successful attempt
  response_text,  \* argument of a direct call of parse_gemini_response
  parse_result    \* what that direct call returned

vars == <<pc, content_type, image_size, decodable, attempt, retry_delay,
          parsed_data, response, loop, calls, fallback_calls, sleeps, errors,
          reply, response_text, parse_result>>

(***************************************************************************)
(* Bounds of the model.                                                    *)
(***************************************************************************)
MaxLen == 5

Requests == {"r1", "r2"}

(***************************************************************************)
(* Python values.                                                          *)
(***************************************************************************)
PyNone == [type |-> "None"]

PyStr(s) == [type |-> "str", s |-> s]

PyText(toks) == [type |-> "text", toks |-> toks]

PyNum(n) == [type |-> "num", tenths |-> n]

PyBool(b) == [type |-> "bool", b |-> b]

PyList(l) == [type |-> "list", items |-> l]

PyDict(d) == [type |-> "dict", d |-> d]

Unbound == [type |-> "unbound"]

(***************************************************************************)
(* str.lower, the "in" operator on strings and str.startswith.             *)
(***************************************************************************)
UpperToLower ==
  ("A" :> "a") @@ ("B" :> "b") @@ ("C" :> "c") @@ ("D" :> "d") @@ ("E" :> "e") @@
  ("F" :> "f") @@ ("G" :> "g") @@ ("H" :> "h") @@ ("I" :> "i") @@ ("J" :> "j") @@
  ("K" :> "k") @@ ("L" :> "l") @@ ("M" :> "m") @@ ("N" :> "n") @@ ("O" :> "o") @@
  ("P" :> "p") @@ ("Q" :> "q") @@ ("R" :> "r") @@ ("S" :> "s") @@ ("T" :> "t") @@
  ("U" :> "u") @@ ("V" :> "v") @@ ("W" :> "w") @@ ("X" :> "x") @@ ("Y" :> "y") @@
  ("Z" :> "z")

lower(s) ==
  [i \in 1..Len(s) |-> IF s[i] \in DOMAIN UpperToLower THEN UpperToLower[s[i]] ELSE s[i]]

Contains(s, sub) ==
  \E i \in 1..(Len(s) - Len(sub) + 1) : SubSeq(s, i, i + Len(sub) - 1) = sub

startswith(s, prefix) ==
  /\ Len(s) >= Len(prefix)
  /\ SubSeq(s, 1, Len(prefix)) = prefix

(***************************************************************************)
(* Reply texts of the model, as token sequences.                           *)
(***************************************************************************)
LBrace == [tok |-> "{"]

RBrace == [tok |-> "}"]

Comma == [tok |-> ","]

Prose == [tok |-> "prose"]

Member(k, v) == [tok |-> "member", key |-> k, value |-> v]

Fields ==
  {"risk_level", "description", "recommendations", "elevation",
   "distance_from_water", "image_analysis"}

JsonNull == PyNone

Tokens ==
  {LBrace, RBrace, Comma, Prose,
   Member("risk_level", PyStr("High")),
   Member("risk_level", JsonNull),
   Member("elevation", PyNum(123))}

ReplyTexts == UNION {[1..n -> Tokens] : n \in 0..MaxLen}

(***************************************************************************)
(* re.search(r"\{.*\}", response_text, re.DOTALL): the leftmost "{" that   *)
(* has a "}" after it, greedily up to the last "}" of the text.            *)
(***************************************************************************)
re_search(text) ==
  LET opens  == {i \in 1..Len(text) : text[i] = LBrace}
      closes == {i \in 1..Len(text) : text[i] = RBrace}
      first  == CHOOSE i \in opens : \A j \in opens : i <= j
      last   == CHOOSE i \in closes : \A j \in closes : j <= i
  IN  IF opens # {} /\ closes # {} /\ first < last
        THEN [found |-> TRUE, group |-> SubSeq(text, first, last)]
        ELSE [found |-> FALSE]

(***************************************************************************)
(* json.loads on a matched group: an object is "{", members separated by   *)
(* ",", "}"; anything else raises.  A repeated key keeps its last value.   *)
(***************************************************************************)
json_loads(group) ==
  LET n     == Len(group)
      inner == SubSeq(group, 2, n - 1)
      m     == Len(inner)
      wellFormed ==
        /\ n >= 2
        /\ group[1] = LBrace
        /\ group[n] = RBrace
        /\ \/ m = 0
           \/ /\ m % 2 = 1
              /\ \A i \in 1..m :
                   IF i % 2 = 1 THEN inner[i].tok = "member" ELSE inner[i] = Comma
      keys == {inner[i].key : i \in {j \in 1..m : inner[j].tok = "member"}}
      lastOf(k) == CHOOSE i \in 1..m :
                     /\ inner[i].tok = "member"
                     /\ inner[i].key = k
                     /\ \A j \in (i + 1)..m : ~(inner[j].tok = "member" /\ inner[j].key = k)
  IN  IF wellFormed
        THEN [ok |-> TRUE, obj |-> [k \in keys |-> inner[lastOf(k)].value]]
        ELSE [ok |-> FALSE]

\* dict.get(key, default)
get(d, key, default) == IF key \in DOMAIN d THEN d[key] ELSE default

DefaultElevation == 500

DefaultDistance == 10000

DefaultRecommendations ==
  PyList(<<"Monitor local weather forecasts", "Ensure proper drainage",
           "Have an evacuation plan">>)

\* the defaults of the six parsed_data.get calls
FieldDefault ==
  [risk_level          |-> PyStr("Medium"),
   description         |-> PyStr("Analysis Completed."),
   recommendations     |-> PyList(<<>>),
   elevation           |-> PyNum(DefaultElevation),
   distance_from_water |-> PyNum(DefaultDistance),
   image_analysis      |-> PyStr("")]

\* the dict returned by the except branch
DefaultResult(text) ==
  [risk_level          |-> PyStr("Medium"),
   description         |-> PyStr("Analysis Completed with default values."),
   recommendations     |-> DefaultRecommendations,
   elevation           |-> PyNum(DefaultElevation),
   distance_from_water |-> PyNum(DefaultDistance),
   image_analysis      |-> PyText(text)]

parse_gemini_response(text) ==
  LET json_match == re_search(text)
  IN  IF json_match.found
        THEN LET loaded == json_loads(json_match.group)
             IN  IF loaded.ok
                   THEN PyDict([k \in Fields |-> get(loaded.obj, k, FieldDefault[k])])
                   ELSE PyDict(DefaultResult(text))
        ELSE PyNone  \* no return statement is reached

(***************************************************************************)
(* generate_image_risk_assessment: the set of dicts it can return.  The    *)
(* two random.uniform samples are drawn from the ends of their ranges.     *)
(***************************************************************************)
RiskLevels == {"Low", "Medium", "High", "Very High"}

descriptions ==
  ("Low" :> "Image analysis shows low flood risk terrain.") @@
  ("Medium" :> "Image analysis indicates moderate flood risk with some water bodies nearby.") @@
  ("High" :> "Image analysis reveals high flood risk characteristics.") @@
  ("Very High" :> "Image analysis shows very high flood risk indicators.")

recommendations ==
  ("Low" :> <<"Continue monitoring terrain changes",
              "Maintain current drainage systems",
              "Stay informed about weather patterns">>) @@
  ("Medium" :> <<"Improve drainage infrastructure",
                 "Consider flood monitoring systems",
                 "Develop emergency response plan">>) @@
  ("High" :> <<"Install comprehensive flood barriers",
               "Implement early warning systems",
               "Consider structural reinforcements">>) @@
  ("Very High" :> <<"Immediate flood protection measures needed",
                    "Consider relocation to higher ground",
                    "Implement comprehensive emergency protocols">>)

MinElevation == 100

MaxElevation == 1000

MinDistance == 2000

MaxDistance == 20000

ElevationSamples == {MinElevation, MaxElevation}

DistanceSamples == {MinDistance, MaxDistance}

generate_image_risk_assessment ==
  {[risk_level          |-> PyStr(risk_level),
    description         |-> PyStr(descriptions[risk_level]),
    recommendations     |-> PyList(recommendations[risk_level]),
    elevation           |-> PyNum(e),
    distance_from_water |-> PyNum(d)] :
      risk_level \in RiskLevels, e \in ElevationSamples, d \in DistanceSamples}

(***************************************************************************)
(* The inputs of a request and of the upstream.                            *)
(***************************************************************************)
ImagePrefix == <<"i","m","a","g","e","/">>

ContentTypes ==
  {PyNone,
   PyStr(<<"i","m","a","g","e","/","p","n","g">>),
   PyStr(<<"I","m","a","g","e","/","p","n","g">>),
   PyStr(<<"t","e","x","t","/","p","l","a","i","n">>)}

MaxImageBytes == 10 * 1024 * 1024

ImageSizes == {MaxImageBytes, MaxImageBytes + 1}

ResourceExhausted ==
  <<"R","E","S","O","U","R","C","E","_","E","X","H","A","U","S","T","E","D">>

Quota == <<"q","u","o","t","a">>

ErrorTexts ==
  {<<"4","2","9"," ","R","E","S","O","U","R","C","E","_","E","X","H","A","U","S","T","E","D">>,
   <<"Q","u","o","t","a"," ","e","x","c","e","e","d","e","d">>,
   <<"t","i","m","e","d"," ","o","u","t">>}

\* reply texts the upstream returns to the handler: prose only, an object
\* that does not parse, an empty object inside prose, an object with a null
\* member, an object with two members
UpstreamReplies ==
  {<<Prose>>,
   <<LBrace, Prose, RBrace>>,
   <<Prose, LBrace, RBrace, Prose>>,
   <<LBrace, Member("risk_level", JsonNull), RBrace>>,
   <<LBrace, Member("risk_level", PyStr("High")), Comma,
     Member("elevation", PyNum(123)), RBrace>>}

(***************************************************************************)
(* The handler analyze_image.                                              *)
(***************************************************************************)
max_retries == 3

InitialRetryDelay == 2

QuotaMessage ==
  "Image analysis was not available due to API quota limits. Using simulated assessment based on historical flood data patterns."

NoTask == "none"

NoReply == [type |-> "none"]

NoResponse == [status_code |-> 0]

HTTPException(status_code, detail) ==
  [exc |-> "HTTPException", status_code |-> status_code, detail |-> detail]

\* "except Exception as e" around the whole handler body: HTTPException is a
\* subclass of Exception, so whatever was raised leaves as a 500
OuterExcept(exc) ==
  [status_code |-> 500, detail |-> "An error occurred while analyzing the image."]

\* the dict the handler returns, sent as a 200 response
SuccessBody(d) ==
  [k \in {"success"} \cup DOMAIN d \cup {"ai_analysis", "message"} |->
     IF k = "message" THEN PyStr("Image analyzed successfully using Gemini AI.")
     ELSE IF k = "ai_analysis" THEN get(d, "image_analysis", PyStr(""))
     ELSE IF k \in DOMAIN d THEN d[k]
     ELSE PyBool(TRUE)]

\* "RESOURCE_EXHAUSTED" in error_str or "quota" in error_str.lower()
IsQuotaError(error_str) ==
  Contains(error_str, ResourceExhausted) \/ Contains(lower(error_str), Quota)

\* the bound of the retry test taken one too far
HasRetryLeftOffByOne(a) == a < max_retries

\* attempt < max_retries - 1
HasRetryLeft(a) == a < max_retries - 1

\* the delay doubled after every failure, quota or not
BackoffDelayAlways(delay, error_str) == delay * 2

\* retry_delay after the quota check of a failed attempt that will be retried
BackoffDelay(delay, error_str) ==
  IF IsQuotaError(error_str) THEN delay * 2 ELSE delay

\* the fallback dict returned as generated, image_analysis not set
ExhaustedDataNotSet(fallback) == fallback

\* parsed_data of the exhausted branch: the fallback dict with image_analysis set
ExhaustedData(fallback) ==
  [k \in DOMAIN fallback \cup {"image_analysis"} |->
     IF k = "image_analysis" THEN PyStr(QuotaMessage) ELSE fallback[k]]

\* where the for loop goes after the body of iteration a ran to its end
AfterIteration(a) == IF a + 1 < max_retries THEN "call" ELSE "return"

Fresh(r) ==
  /\ content_type' = [content_type EXCEPT ![r] = PyNone]
  /\ image_size' = [image_size EXCEPT ![r] = 0]
  /\ decodable' = [decodable EXCEPT ![r] = FALSE]
  /\ attempt' = [attempt EXCEPT ![r] = 0]
  /\ retry_delay' = [retry_delay EXCEPT ![r] = 0]
  /\ parsed_data' = [parsed_data EXCEPT ![r] = Unbound]
  /\ response' = [response EXCEPT ![r] = NoResponse]
  /\ calls' = [calls EXCEPT ![r] = 0]
  /\ fallback_calls' = [fallback_calls EXCEPT ![r] = 0]
  /\ sleeps' = [sleeps EXCEPT ![r] = <<>>]
  /\ errors' = [errors EXCEPT ![r] = <<>>]
  /\ reply' = [reply EXCEPT ![r] = NoReply]

Init ==
  /\ pc = [r \in Requests |-> "idle"]
  /\ content_type = [r \in Requests |-> PyNone]
  /\ image_size = [r \in Requests |-> 0]
  /\ decodable = [r \in Requests |-> FALSE]
  /\ attempt = [r \in Requests |-> 0]
  /\ retry_delay = [r \in Requests |-> 0]
  /\ parsed_data = [r \in Requests |-> Unbound]
  /\ response = [r \in Requests |-> NoResponse]
  /\ loop = NoTask
  /\ calls = [r \in Requests |-> 0]
  /\ fallback_calls = [r \in Requests |-> 0]
  /\ sleeps = [r \in Requests |-> <<>>]
  /\ errors = [r \in Requests |-> <<>>]
  /\ reply = [r \in Requests |-> NoReply]
  /\ response_text = <<>>
  /\ parse_result = Unbound

\* a client posts a file: the upload's declared type, its size, its bytes
Request(r, ct, size, dec) ==
  /\ pc[r] = "idle"
  /\ pc' = [pc EXCEPT ![r] = "start"]
  /\ content_type' = [content_type EXCEPT ![r] = ct]
  /\ image_size' = [image_size EXCEPT ![r] = size]
  /\ decodable' = [decodable EXCEPT ![r] = dec]
  /\ UNCHANGED <<attempt, retry_delay, parsed_data, response, loop, calls,
                 fallback_calls, sleeps, errors, reply, response_text, parse_result>>

\* the handler from its start to "await file.read()"
CheckContentType(r) ==
  /\ pc[r] = "start"
  /\ loop = NoTask
  /\ IF content_type[r] = PyNone
       THEN \* None has no startswith: AttributeError
            /\ response' = [response EXCEPT ![r] = OuterExcept([exc |-> "AttributeError"])]
            /\ pc' = [pc EXCEPT ![r] = "done"]
       ELSE IF ~startswith(content_type[r].s, ImagePrefix)
         THEN /\ response' = [response EXCEPT ![r] =
                   OuterExcept(HTTPException(400, "Invalid file type. Please upload an image."))]
              /\ pc' = [pc EXCEPT ![r] = "done"]
         ELSE /\ pc' = [pc EXCEPT ![r] = "reading"]
              /\ UNCHANGED response
  /\ UNCHANGED <<content_type, image_size, decodable, attempt, retry_delay,
                 parsed_data, loop, calls, fallback_calls, sleeps, errors, reply,
                 response_text, parse_result>>

\* the handler resumes after the read: size check, decoding, prompt, loop entry
ReadDone(r) ==
  /\ pc[r] = "reading"
  /\ loop = NoTask
  /\ IF image_size[r] > MaxImageBytes
       THEN /\ response' = [response EXCEPT ![r] =
                 OuterExcept(HTTPException(400, "File size exceeds the limit of 10MB."))]
            /\ pc' = [pc EXCEPT ![r] = "done"]
            /\ UNCHANGED <<attempt, retry_delay, loop>>
       ELSE IF ~decodable[r]
         THEN /\ response' = [response EXCEPT ![r] =
                   OuterExcept(HTTPException(400, "Invalid image format."))]
              /\ pc' = [pc EXCEPT ![r] = "done"]
              /\ UNCHANGED <<attempt, retry_delay, loop>>
         ELSE /\ attempt' = [attempt EXCEPT ![r] = 0]
              /\ retry_delay' = [retry_delay EXCEPT ![r] = InitialRetryDelay]
              /\ pc' = [pc EXCEPT ![r] = "call"]
              /\ loop' = r
              /\ UNCHANGED response
  /\ UNCHANGED <<content_type, image_size, decodable, parsed_data, calls,
                 fallback_calls, sleeps, errors, reply, response_text, parse_result>>

\* the successful attempt without its break: the loop goes on
GenaiSuccessNoBreak(r, text) ==
  /\ pc[r] = "call"
  /\ loop = r
  /\ calls' = [calls EXCEPT ![r] = @ + 1]
  /\ reply' = [reply EXCEPT ![r] = PyText(text)]
  /\ parsed_data' = [parsed_data EXCEPT ![r] = parse_gemini_response(text)]
  /\ pc' = [pc EXCEPT ![r] = AfterIteration(attempt[r])]
  /\ attempt' = [attempt EXCEPT ![r] = IF @ + 1 < max_retries THEN @ + 1 ELSE @]
  /\ UNCHANGED <<content_type, image_size, decodable, retry_delay,
                 response, loop, fallback_calls, sleeps, errors, response_text,
                 parse_result>>

\* model.generate_content returns and response.text is parsed: break
GenaiSuccess(r, text) ==
  /\ pc[r] = "call"
  /\ loop = r
  /\ calls' = [calls EXCEPT ![r] = @ + 1]
  /\ reply' = [reply EXCEPT ![r] = PyText(text)]
  /\ parsed_data' = [parsed_data EXCEPT ![r] = parse_gemini_response(text)]
  /\ pc' = [pc EXCEPT ![r] = "return"]
  /\ UNCHANGED <<content_type, image_size, decodable, attempt, retry_delay,
                 response, loop, fallback_calls, sleeps, errors, response_text,
                 parse_result>>

\* the failed attempt with retry_delay a module-level variable, one for all
\* requests
GenaiFailShared(r, error_str) ==
  /\ pc[r] = "call"
  /\ loop = r
  /\ calls' = [calls EXCEPT ![r] = @ + 1]
  /\ errors' = [errors EXCEPT ![r] = Append(@, error_str)]
  /\ IF HasRetryLeft(attempt[r])
       THEN /\ retry_delay' = [s \in Requests |-> BackoffDelay(retry_delay[r], error_str)]
            /\ sleeps' = [sleeps EXCEPT ![r] = Append(@, retry_delay'[r])]
            /\ pc' = [pc EXCEPT ![r] = "sleep"]
            /\ UNCHANGED <<parsed_data, fallback_calls>>
       ELSE /\ \E fallback \in generate_image_risk_assessment :
                 parsed_data' = [parsed_data EXCEPT ![r] = PyDict(ExhaustedData(fallback))]
            /\ fallback_calls' = [fallback_calls EXCEPT ![r] = @ + 1]
            /\ pc' = [pc EXCEPT ![r] = AfterIteration(attempt[r])]
            /\ UNCHANGED <<retry_delay, sleeps>>
  /\ UNCHANGED <<content_type, image_size, decodable, attempt, response, loop,
                 reply, response_text, parse_result>>

\* model.generate_content (or response.text) raises: the except branch, up to
\* the call of time.sleep or through the fallback to the end of the loop
GenaiFail(r, error_str) ==
  /\ pc[r] = "call"
  /\ loop = r
  /\ calls' = [calls EXCEPT ![r] = @ + 1]
  /\ errors' = [errors EXCEPT ![r] = Append(@, error_str)]
  /\ IF HasRetryLeft(attempt[r])
       THEN /\ retry_delay' = [retry_delay EXCEPT ![r] = BackoffDelay(@, error_str)]
            /\ sleeps' = [sleeps EXCEPT ![r] = Append(@, retry_delay'[r])]
            /\ pc' = [pc EXCEPT ![r] = "sleep"]
            /\ UNCHANGED <<parsed_data, fallback_calls>>
       ELSE /\ \E fallback \in generate_image_risk_assessment :
                 parsed_data' = [parsed_data EXCEPT ![r] = PyDict(ExhaustedData(fallback))]
            /\ fallback_calls' = [fallback_calls EXCEPT ![r] = @ + 1]
            /\ pc' = [pc EXCEPT ![r] = AfterIteration(attempt[r])]
            /\ UNCHANGED <<retry_delay, sleeps>>
  /\ UNCHANGED <<content_type, image_size, decodable, attempt, response, loop,
                 reply, response_text, parse_result>>

\* time.sleep returns; the for loop takes its next value, if it has one
Wake(r) ==
  /\ pc[r] = "sleep"
  /\ loop = r
  /\ pc' = [pc EXCEPT ![r] = AfterIteration(attempt[r])]
  /\ attempt' = [attempt EXCEPT ![r] = IF @ + 1 < max_retries THEN @ + 1 ELSE @]
  /\ UNCHANGED <<content_type, image_size, decodable, retry_delay, parsed_data,
                 response, loop, calls, fallback_calls, sleeps, errors, reply,
                 response_text, parse_result>>

\* the return statement: the dict is built from parsed_data, or building it
\* raises (None cannot be unpacked with **, an unbound local cannot be read)
Return(r) ==
  /\ pc[r] = "return"
  /\ loop = r
  /\ response' = [response EXCEPT ![r] =
       IF parsed_data[r].type = "dict"
         THEN [status_code |-> 200, body |-> SuccessBody(parsed_data[r].d)]
         ELSE IF parsed_data[r] = PyNone
           THEN OuterExcept([exc |-> "TypeError"])
           ELSE OuterExcept([exc |-> "UnboundLocalError"])]
  /\ pc' = [pc EXCEPT ![r] = "done"]
  /\ loop' = NoTask
  /\ UNCHANGED <<content_type, image_size, decodable, attempt, retry_delay,
                 parsed_data, calls, fallback_calls, sleeps, errors, reply,
                 response_text, parse_result>>

\* the response has gone out and the request's frame is dropped
Respond(r) ==
  /\ pc[r] = "done"
  /\ loop = NoTask
  /\ pc' = [pc EXCEPT ![r] = "idle"]
  /\ Fresh(r)
  /\ UNCHANGED <<loop, response_text, parse_result>>

Next ==
  \/ \E r \in Requests, ct \in ContentTypes, size \in ImageSizes, dec \in BOOLEAN :
       Request(r, ct, size, dec)
  \/ \E r \in Requests : CheckContentType(r)
  \/ \E r \in Requests : ReadDone(r)
  \/ \E r \in Requests, text \in UpstreamReplies : GenaiSuccess(r, text)
  \/ \E r \in Requests, error_str \in ErrorTexts : GenaiFail(r, error_str)
  \/ \E r \in Requests : Wake(r)
  \/ \E r \in Requests : Return(r)
  \/ \E r \in Requests : Respond(r)

Spec == Init /\ [][Next]_vars

(***************************************************************************)
(* parse_gemini_response called on its own, on every reply text of up to   *)
(* MaxLen tokens.                                                          *)
(***************************************************************************)
ParseInit ==
  /\ pc = [r \in Requests |-> "idle"]
  /\ content_type = [r \in Requests |-> PyNone]
  /\ image_size = [r \in Requests |-> 0]
  /\ decodable = [r \in Requests |-> FALSE]
  /\ attempt = [r \in Requests |-> 0]
  /\ retry_delay = [r \in Requests |-> 0]
  /\ parsed_data = [r \in Requests |-> Unbound]
  /\ response = [r \in Requests |-> NoResponse]
  /\ loop = NoTask
  /\ calls = [r \in Requests |-> 0]
  /\ fallback_calls = [r \in Requests |-> 0]
  /\ sleeps = [r \in Requests |-> <<>>]
  /\ errors = [r \in Requests |-> <<>>]
  /\ reply = [r \in Requests |-> NoReply]
  /\ response_text \in ReplyTexts
  /\ parse_result = Unbound

ParseCall ==
  /\ parse_result = Unbound
  /\ parse_result' = parse_gemini_response(response_text)
  /\ UNCHANGED <<pc, content_type, image_size, decodable, attempt, retry_delay,
                 parsed_data, response, loop, calls, fallback_calls, sleeps,
                 errors, reply, response_text>>

ParseNext == ParseCall

SpecParse == ParseInit /\ [][ParseNext]_vars

(***************************************************************************)
(* Properties.                                                             *)
(***************************************************************************)
DeclaredType(r) == content_type[r] # PyNone

\* the request fails one of the three validations
InvalidInput(r) ==
  /\ DeclaredType(r)
  /\ \/ ~startswith(content_type[r].s, ImagePrefix)
     \/ image_size[r] > 10 * 1024 * 1024
     \/ ~decodable[r]

\* the request passes the three validations
ValidInput(r) ==
  /\ DeclaredType(r)
  /\ startswith(content_type[r].s, ImagePrefix)
  /\ image_size[r] <= 10 * 1024 * 1024
  /\ decodable[r]

Answered(r) == pc[r] = "done"

IsOk(resp) == resp.status_code = 200

\* C1: every request that fails input validation (content type not starting
\* with "image/", more than 10*1024*1024 bytes, undecodable bytes) is
\* answered with status 400.
C1_ValidationFailureIs400 ==
  \A r \in Requests :
    Answered(r) /\ InvalidInput(r) => response[r].status_code = 400

\* C2: every request that passes input validation is answered 200 with
\* success true, whatever the upstream failed with and whatever it replied.
C2_ValidRequestIs200 ==
  \A r \in Requests :
    Answered(r) /\ ValidInput(r) =>
      /\ IsOk(response[r])
      /\ response[r].body["success"] = PyBool(TRUE)

\* the reply has no {...} substring, or its {...} substring is not JSON
Unparseable(text) ==
  \/ ~re_search(text).found
  \/ ~json_loads(re_search(text).group).ok

\* C3: parse_gemini_response fails soft: on a reply text with no {...}
\* substring, or whose {...} substring does not parse, it returns the fixed
\* default result with image_analysis equal to the whole reply text.
C3_ParseFailsSoft ==
  parse_result # Unbound /\ Unparseable(response_text) =>
    parse_result = PyDict(DefaultResult(response_text))

\* C4: when the upstream fails on all 3 attempts, exactly 3 upstream calls
\* were made, the fallback generator ran exactly once, and the answer is 200
\* with success true and the fallback result whose image_analysis is the
\* quota-unavailable message.
C4_Exhaustion ==
  \A r \in Requests :
    Answered(r) /\ Len(errors[r]) = 3 =>
      /\ calls[r] = 3
      /\ fallback_calls[r] = 1
      /\ IsOk(response[r])
      /\ LET body == response[r].body
         IN  /\ body["success"] = PyBool(TRUE)
             /\ "image_analysis" \in DOMAIN body
             /\ body["image_analysis"] = PyStr(QuotaMessage)
             /\ \E fallback \in generate_image_risk_assessment :
                  \A k \in DOMAIN fallback : body[k] = fallback[k]

C4_Witness ==
  \E r \in Requests :
    /\ Answered(r)
    /\ Len(errors[r]) = 3
    /\ fallback_calls[r] = 1
    /\ IsOk(response[r])

C6_FieldsPopulated ==
  \A r \in Requests :
    IsOk(response[r]) =>
      \A f \in Fields :
        /\ f \in DOMAIN response[r].body
        /\ response[r].body[f] # PyNone

\* C7: while one request is in its backoff sleep, the handler of any other
\* request that waits for the event loop can take its step.
C7_SleepDoesNotBlock ==
  \A r, s \in Requests :
    r # s /\ pc[r] = "sleep" /\ pc[s] \in {"start", "reading"} =>
      ENABLED (CheckContentType(s) \/ ReadDone(s))

\* the classification of an error text as the claim words it
QuotaClassified(error_str) ==
  \/ Contains(error_str, ResourceExhausted)
  \/ Contains(lower(error_str), Quota)

QuotaCount(errs, i) == Cardinality({j \in 1..i : QuotaClassified(errs[j])})

\* C8: the delay is 2 seconds at the start of the loop; the delay slept after
\* the i-th failure is the previous delay, doubled if that failure is
\* quota-classified and unchanged otherwise, that is 2 * 2^q for q
\* quota-classified failures among attempts 1..i; the delay stays at the
\* last slept value, also through a final failure.
C8_Backoff ==
  \A r \in Requests :
    /\ pc[r] = "call" /\ calls[r] = 0 => retry_delay[r] = 2
    /\ \A i \in 1..Len(sleeps[r]) :
         LET previous == IF i = 1 THEN 2 ELSE sleeps[r][i - 1]
         IN  /\ sleeps[r][i] = 2 * 2^QuotaCount(errors[r], i)
             /\ sleeps[r][i] = IF QuotaClassified(errors[r][i])
                                 THEN 2 * previous ELSE previous
    /\ Len(sleeps[r]) > 0 => retry_delay[r] = sleeps[r][Len(sleeps[r])]

C8_Witness ==
  \E r \in Requests :
    /\ Len(sleeps[r]) = 2
    /\ QuotaClassified(errors[r][1])
    /\ ~QuotaClassified(errors[r][2])
    /\ sleeps[r] = <<4, 4>>

InLoop(r) == pc[r] \in {"call", "sleep"}

\* C9: every request enters its loop with attempt 0 and delay 2; a step
\* changes the attempt count or the delay of a request only if it is a step
\* of that request, and inside the loop the delay changes only by the
\* request's own quota-classified failure and the attempt count only after
\* the request's own failure.
C9_NoSharedRetryState ==
  /\ [](\A r \in Requests :
          pc[r] = "call" /\ calls[r] = 0 => attempt[r] = 0 /\ retry_delay[r] = 2)
  /\ [][\A r \in Requests :
          /\ (attempt'[r] # attempt[r] \/ retry_delay'[r] # retry_delay[r]) =>
               /\ pc'[r] # pc[r]
               /\ \A s \in Requests \ {r} : pc'[s] = pc[s]
          /\ InLoop(r) /\ retry_delay'[r] # retry_delay[r] =>
               /\ Len(errors'[r]) = Len(errors[r]) + 1
               /\ QuotaClassified(errors'[r][Len(errors'[r])])
          /\ InLoop(r) /\ attempt'[r] # attempt[r] =>
               /\ pc[r] = "sleep"
               /\ attempt'[r] = Len(errors[r])]_vars

C9_Witness ==
  \E r, s \in Requests :
    /\ r # s
    /\ pc[r] = "sleep"
    /\ retry_delay[r] = 2
    /\ Answered(s)
    /\ retry_delay[s] = 8

\* C10: each attempt starts after as many sleeps as failures before it; a
\* sleep follows each of the failures 1 and 2 and none follows the 3rd
\* failure or a success, so a request sleeps at most twice.
C10_Sleeps ==
  \A r \in Requests :
    /\ Len(sleeps[r]) <= 2
    /\ Len(sleeps[r]) = IF Len(errors[r]) < 3 THEN Len(errors[r]) ELSE 2
    /\ pc[r] = "call" => Len(sleeps[r]) = calls[r] /\ calls[r] =  attempt[r]
    /\ pc[r] = "sleep" => calls[r] = Len(sleeps[r]) /\ reply[r] = NoReply

C10_Witness ==
  \E r \in Requests :
    /\ pc[r] = "return"
    /\ Len(errors[r]) = 3
    /\ sleeps[r] = <<2, 4>>

====
